---------------------------- MODULE Spec2Model ----------------------------
(***************************************************************************)
(* FlagDispensationsAlert (src/src/alerts/flag_dispensations_alert.py):    *)
(* the recency filter, the tracking key, the router with its CC            *)
(* resolution and link attachment, and the run that strings them together. *)
(*                                                                         *)
(* Text is a sequence of one-character strings, so that lower(), rstrip()  *)
(* and the substring test are computed character by character.  A tracking *)
(* key is a TLA+ string built by concatenation.  A cell that pandas may    *)
(* hold as a null is a tagged record: Null, Str(s), Ts(wall, tz, off).     *)
(***************************************************************************)
EXTENDS Integers, Sequences, FiniteSets, TLC

VARIABLES
    config,        \* self.config: the AlertConfig read by every method
    now,           \* the clock, an instant in ticks; held fixed
    source,        \* the table the data source holds
    df,            \* the caller's DataFrame, the argument of filter_data
    df_filtered,   \* what filter_data returned
    keys,          \* get_tracking_key of each row tracked so far
    pending,       \* the rows handed to route_notifications
    jobs,          \* route_notifications' local list `jobs`
    grp,           \* how many groups the loop of route_notifications has done
    returned,      \* what route_notifications returned, one entry per call
    emitted,       \* the jobs handed to delivery in the current run
    handed,        \* every row ever handed to delivery inside a job
    store,         \* the dedup store: the tracking keys recorded
    run,           \* how many runs have started
    vessel_email,  \* the argument of _get_cc_recipients
    cc_out,        \* what _get_cc_recipients returned
    pc             \* where the run is

vars == <<config, now, source, df, df_filtered, keys, pending, jobs, grp,
          returned, emitted, handed, store, run, vessel_email, cc_out, pc>>

\* ---------------------------------------------------------------- bounds

\* Ids range over 0..MaxId: two digits, so that concatenations can overlap.
MaxId == 11
\* The longest vessel email passed to _get_cc_recipients, in characters.
MaxEmailLen == 3
\* The most entries email_routing holds.
MaxEntries == 2

\* ------------------------------------------------------------------ text

Range(s) == {s[i] : i \in 1..Len(s)}

\* All sequences over S of length lo..hi.
SeqsOf(S, lo, hi) == UNION {[1..n -> S] : n \in lo..hi}

\* str.lower() of one character.
LowerChar(c) ==
    CASE c = "S" -> "s"
      [] c = "T" -> "t"
      [] c = "P" -> "p"
      [] OTHER -> c

\* str.lower()
Lower(s) == [i \in 1..Len(s) |-> LowerChar(s[i])]

\* Python's `d in e` on strings.
IsSubstring(d, e) ==
    \E i \in 0..(Len(e) - Len(d)) : SubSeq(e, i + 1, i + Len(d)) = d

\* str.rstrip('/')
RECURSIVE RStripSlash(_)
RStripSlash(s) ==
    IF s # <<>> /\ s[Len(s)] = "/" THEN RStripSlash(SubSeq(s, 1, Len(s) - 1))
    ELSE s

DigitStr(d) ==
    CASE d = 0 -> "0" [] d = 1 -> "1" [] d = 2 -> "2" [] d = 3 -> "3"
      [] d = 4 -> "4" [] d = 5 -> "5" [] d = 6 -> "6" [] d = 7 -> "7"
      [] d = 8 -> "8" [] d = 9 -> "9"

\* str(n) of a non-negative int, as a TLA+ string (the f-string's {n}).
RECURSIVE IntStr(_)
IntStr(n) ==
    IF n < 10 THEN DigitStr(n) ELSE IntStr(n \div 10) \o DigitStr(n % 10)

\* str(n) of a non-negative int, as text.
RECURSIVE IntText(_)
IntText(n) ==
    IF n < 10 THEN <<DigitStr(n)>>
    ELSE Append(IntText(n \div 10), DigitStr(n % 10))

\* ----------------------------------------------------------------- cells

Null == [k |-> "null"]
Str(s) == [k |-> "str", v |-> s]
IsNull(c) == c.k = "null"

\* ---------------------------------------------------------- tracking key

\* get_tracking_key built from job_id alone.
GetTrackingKeyJobOnly(row) ==
    IF "vessel_id" \in DOMAIN row /\ "job_id" \in DOMAIN row
    THEN [ok |-> TRUE, key |-> "job_id_" \o IntStr(row.job_id)]
    ELSE [ok |-> FALSE, key |-> ""]

\* get_tracking_key with the separator between the two ids left out.
GetTrackingKeyNoSeparator(row) ==
    IF "vessel_id" \in DOMAIN row /\ "job_id" \in DOMAIN row
    THEN [ok |-> TRUE,
          key |-> "vessel_id_" \o IntStr(row.vessel_id) \o IntStr(row.job_id)]
    ELSE [ok |-> FALSE, key |-> ""]

\* get_tracking_key: the key, or the KeyError it re-raises.
get_tracking_key(row) ==
    IF "vessel_id" \in DOMAIN row /\ "job_id" \in DOMAIN row
    THEN [ok |-> TRUE,
          key |-> "vessel_id_" \o IntStr(row.vessel_id)
                    \o "__job_id_" \o IntStr(row.job_id)]
    ELSE [ok |-> FALSE, key |-> ""]

\* ------------------------------------------------------- CC resolution

\* One value of email_routing: a mapping with a cc list, a mapping without
\* the 'cc' key, or a value that is no mapping at all (its .get raises).
CcConf(list) == [k |-> "dict", cc |-> list]
NoCcConf == [k |-> "dict"]
BadConf == [k |-> "null"]

\* recipients_config.get('cc', [])
GetCc(conf) == IF "cc" \in DOMAIN conf THEN conf.cc ELSE <<>>

\* The loop of _get_cc_recipients without its break: the last match wins.
RECURSIVE CcLoopNoBreak(_, _, _)
CcLoopNoBreak(items, email_lower, cc_list) ==
    IF items = <<>> THEN [ok |-> TRUE, cc |-> cc_list]
    ELSE IF IsSubstring(Lower(Head(items).domain), email_lower)
         THEN IF Head(items).conf.k # "dict" THEN [ok |-> FALSE, cc |-> <<>>]
              ELSE CcLoopNoBreak(Tail(items), email_lower,
                                 GetCc(Head(items).conf))
         ELSE CcLoopNoBreak(Tail(items), email_lower, cc_list)

\* The loop of _get_cc_recipients over email_routing.items(): cc_list starts
\* empty and takes the cc of the first domain found in the lowered email.
RECURSIVE CcLoop(_, _, _)
CcLoop(items, email_lower, cc_list) ==
    IF items = <<>> THEN [ok |-> TRUE, cc |-> cc_list]
    ELSE IF IsSubstring(Lower(Head(items).domain), email_lower)
         THEN IF Head(items).conf.k # "dict" THEN [ok |-> FALSE, cc |-> <<>>]
              ELSE [ok |-> TRUE, cc |-> GetCc(Head(items).conf)]
         ELSE CcLoop(Tail(items), email_lower, cc_list)

\* _get_cc_recipients: list(set(cc_list + internal_recipients)), as a set,
\* or the AttributeError of a malformed entry.
get_cc_recipients(cfg, email) ==
    LET r == CcLoop(cfg.email_routing, Lower(email), <<>>)
    IN  [ok |-> r.ok,
         cc |-> IF r.ok THEN Range(r.cc \o cfg.internal_recipients) ELSE {}]

\* _get_company_name, with "p" for 'prominence' and "st" for 'seatraders'.
get_company_name(email) ==
    LET e == Lower(email)
    IN  IF IsSubstring(<<"p">>, e) THEN "Prominence Maritime S.A."
        ELSE IF IsSubstring(<<"s", "t">>, e) THEN "Sea Traders S.A."
        ELSE "Prominence Maritime S.A."

\* ------------------------------------------------------------ timestamps

\* Ticks (hours) in timedelta(days=1).
TicksPerDay == 24

\* A timestamp cell: its wall-clock reading, whether it carries a timezone,
\* and that timezone's offset from UTC (0 when it carries none).
Ts(w, a, o) == [k |-> "ts", wall |-> w, aware |-> a, off |-> o]
\* A cell to_datetime cannot parse.
Bad == [k |-> "bad"]
IsTs(c) == c.k = "ts"

\* The instant an aware timestamp denotes.
Instant(c) == c.wall - c.off

\* Series.dt.tz_localize('UTC')
TzLocalizeUTC(c) == IF IsTs(c) THEN Ts(c.wall, TRUE, 0) ELSE c

\* Series.dt.tz_convert(tz): the same instant read on tz's clock.
TzConvert(c, tzoff) ==
    IF IsTs(c) THEN Ts(Instant(c) + tzoff, TRUE, tzoff) ELSE c

\* strftime('%Y-%m-%d %H:%M:%S'): the day and the time of day of the reading.
FormatDateTime(c) ==
    Str(<<IntStr(c.wall \div TicksPerDay), " ", IntStr(c.wall % TicksPerDay)>>)

\* strftime('%Y-%m-%d'): the day of the reading.
FormatDate(c) == Str(<<IntStr(c.wall \div TicksPerDay)>>)

\* ----------------------------------------------------------- filter_data

\* Every row of a non-empty table has the same columns.
HasColumn(d, col) == d # <<>> /\ col \in DOMAIN d[1]

\* df[col] = cells
SetColumn(d, col, cells) ==
    [i \in 1..Len(d) |-> [d[i] EXCEPT ![col] = cells[i]]]

\* The date formatting without its .fillna(''): a null stays a null.
FormatDateCellNoFill(c) == IF IsTs(c) THEN FormatDate(c) ELSE Null

\* pd.to_datetime(col, errors='coerce').dt.strftime('%Y-%m-%d').fillna('')
FormatDateCell(c) == IF IsTs(c) THEN FormatDate(c) ELSE Str(<<>>)

\* _format_date_column: in place, when the column is there.
format_date_column(d, col) ==
    IF HasColumn(d, col)
    THEN SetColumn(d, col, [i \in 1..Len(d) |-> FormatDateCell(d[i][col])])
    ELSE d

\* Series.fillna('')
FillNa(c) == IF IsNull(c) THEN Str(<<>>) ELSE c

\* The fillna('') loop over importance, dispensation_type, department.
RECURSIVE FillColumns(_, _)
FillColumns(d, cols) ==
    IF cols = <<>> THEN d
    ELSE FillColumns(IF HasColumn(d, Head(cols))
                     THEN SetColumn(d, Head(cols),
                              [i \in 1..Len(d) |-> FillNa(d[i][Head(cols)])])
                     ELSE d,
                     Tail(cols))

\* The timezone normalisation of the created_at column: a column with no
\* timezone (dt.tz is None) is read as UTC, then converted; a column with
\* one is converted directly.
NormalizeCreated(d, tzoff) ==
    LET naive == \A i \in 1..Len(d) :
                     IsTs(d[i].created_at) => ~d[i].created_at.aware
        conv(c) == IF naive THEN TzConvert(TzLocalizeUTC(c), tzoff)
                   ELSE TzConvert(c, tzoff)
    IN  SetColumn(d, "created_at",
                  [i \in 1..Len(d) |-> conv(d[i].created_at)])

\* datetime.now(tz=ZoneInfo(timezone)) - timedelta(days=lookback_days)
CutoffDate(cfg, clock) ==
    Ts(clock + cfg.timezone - cfg.lookback_days * TicksPerDay, TRUE,
       cfg.timezone)

\* df['created_at'] > cutoff_date: the boundary row is lost.
IsRecentStrict(c, cutoff) == IsTs(c) /\ Instant(c) > Instant(cutoff)

\* df['created_at'] >= cutoff_date, on aware timestamps; NaT compares false.
IsRecent(c, cutoff) == IsTs(c) /\ Instant(c) >= Instant(cutoff)

\* filter_data(df): ok, the caller's table as the call leaves it, and the
\* table returned.  An unparsable created_at makes to_datetime raise before
\* anything is assigned.
filter_data(cfg, clock, d) ==
    IF d = <<>> THEN [ok |-> TRUE, df |-> d, out |-> d]
    ELSE IF \E i \in 1..Len(d) : d[i].created_at = Bad
    THEN [ok |-> FALSE, df |-> d, out |-> <<>>]
    ELSE
      LET d1 == NormalizeCreated(d, cfg.timezone)
          cutoff == CutoffDate(cfg, clock)
          keep(r) == IsRecent(r.created_at, cutoff)
          f0 == SelectSeq(d1, keep)
          f1 == SetColumn(f0, "created_at",
                  [i \in 1..Len(f0) |-> FormatDateTime(f0[i].created_at)])
          f2 == format_date_column(f1, "due_date")
          f3 == format_date_column(f2, "requested_on")
          f4 == FillColumns(f3, <<"importance", "dispensation_type",
                                  "department">>)
      IN  [ok |-> TRUE, df |-> d1, out |-> f4]

\* ---------------------------------------------------------------- links

\* _get_url_links with the two rstrip('/') left out.
GetUrlLinksNoStrip(cfg, link_id) ==
    IF ~cfg.enable_links THEN Null
    ELSE Str(cfg.base_url \o cfg.url_path \o <<"/">> \o IntText(link_id))

\* _get_url_links: None when links are disabled, else
\* f"{base_url.rstrip('/')}{url_path.rstrip('/')}/{link_id}"
get_url_links(cfg, link_id) ==
    IF ~cfg.enable_links THEN Null
    ELSE Str(RStripSlash(cfg.base_url) \o RStripSlash(cfg.url_path)
               \o <<"/">> \o IntText(link_id))

\* --------------------------------------------------------------- grouping

\* The characters of emails and vessel names, in code-point order.
CharOrder == <<"/", "@", "P", "S", "T", "a", "b", "c", "p", "s", "t">>
Ord(c) == CHOOSE i \in 1..Len(CharOrder) : CharOrder[i] = c

\* a < b on str
RECURSIVE TextLess(_, _)
TextLess(a, b) ==
    IF b = <<>> THEN FALSE
    ELSE IF a = <<>> THEN TRUE
    ELSE IF Head(a) # Head(b) THEN Ord(Head(a)) < Ord(Head(b))
    ELSE TextLess(Tail(a), Tail(b))

\* a <= b on the (vsl_email, vessel) tuples
KeyLeq(a, b) ==
    \/ TextLess(a[1], b[1])
    \/ a[1] = b[1] /\ (a[2] = b[2] \/ TextLess(a[2], b[2]))

RECURSIVE SortKeys(_)
SortKeys(S) ==
    IF S = {} THEN <<>>
    ELSE LET m == CHOOSE m \in S : \A o \in S : KeyLeq(m, o)
         IN  <<m>> \o SortKeys(S \ {m})

\* The group keys of df.groupby(['vsl_email', 'vessel']): one per distinct
\* pair, sorted; a row with a null in either column is in no group
\* (groupby's dropna=True).
GroupKeys(d) ==
    SortKeys({<<d[i].vsl_email.v, d[i].vessel.v>> :
                 i \in {j \in 1..Len(d) :
                           ~IsNull(d[j].vsl_email) /\ ~IsNull(d[j].vessel)}})

\* The rows sharing the email of a group, whatever their vessel.
GroupRowsByEmail(d, key) ==
    LET in(r) == r.vsl_email = Str(key[1])
    IN  SelectSeq(d, in)

\* The rows of one group (vessel_df), in the order of df.
GroupRows(d, key) ==
    LET in(r) == r.vsl_email = Str(key[1]) /\ r.vessel = Str(key[2])
    IN  SelectSeq(d, in)

\* vessel_df['url'] = vessel_df['job_id'].apply(self._get_url_links)
AddUrl(cfg, vessel_df) ==
    [i \in 1..Len(vessel_df) |->
        [url |-> get_url_links(cfg, vessel_df[i].job_id)] @@ vessel_df[i]]

display_columns ==
    <<"title", "dispensation_type", "department", "requested_on", "due_date",
      "created_at">>

\* The body of the loop of route_notifications for one group: the job, or
\* the error _get_cc_recipients raised.
BuildJob(cfg, key, d) ==
    LET vessel_df == GroupRows(d, key)
        cc == get_cc_recipients(cfg, key[1])
        full_data == IF cfg.enable_links THEN AddUrl(cfg, vessel_df)
                     ELSE vessel_df
    IN  [ok |-> cc.ok,
         job |-> [recipients |-> <<key[1]>>,
                  cc_recipients |-> cc.cc,
                  data |-> full_data,
                  metadata |-> [vessel_id |-> vessel_df[1].vessel_id,
                                vessel_name |-> key[2],
                                alert_title |-> "Flag Dispensations",
                                company_name |-> get_company_name(key[1]),
                                display_columns |-> display_columns]]]

\* -------------------------------------------------------------- the run

\* get_required_columns
get_required_columns ==
    {"vsl_email", "vessel_id", "vessel", "job_id", "importance", "title",
     "dispensation_type", "department", "due_date", "requested_on",
     "created_at", "status"}

\* The scheduler starts at most MaxRuns runs.
MaxRuns == 2

\* The rows of a list of jobs.
RECURSIVE JobRows(_)
JobRows(js) ==
    IF js = <<>> THEN {} ELSE Range(Head(js).data) \cup JobRows(Tail(js))

RowId(r) == <<r.vessel_id, r.job_id>>

\* Fetch: the source answers with its table, or the round trip fails.
Fetch ==
    /\ pc = "idle"
    /\ run < MaxRuns
    /\ run' = run + 1
    /\ \E answered \in BOOLEAN :
          IF answered /\ \A i \in 1..Len(source) :
                             get_required_columns \subseteq DOMAIN source[i]
          THEN df' = source /\ pc' = "fetched"
          ELSE df' = <<>> /\ pc' = "failed"
    /\ UNCHANGED <<config, now, source, df_filtered, keys, pending, jobs, grp,
                   returned, emitted, handed, store, vessel_email, cc_out>>

\* filter_data(df): assigns created_at on the caller's table, returns the
\* filtered copy, or raises.
Filter ==
    /\ pc = "fetched"
    /\ LET r == filter_data(config, now, df)
       IN  /\ df' = r.df
           /\ df_filtered' = r.out
           /\ pc' = IF r.ok THEN "filtered" ELSE "failed"
    /\ UNCHANGED <<config, now, source, keys, pending, jobs, grp, returned,
                   emitted, handed, store, run, vessel_email, cc_out>>

\* The dedup filter: get_tracking_key of every filtered row, and the rows
\* whose key the store does not hold go on to the router.
Track ==
    /\ pc = "filtered"
    /\ LET ks == [i \in 1..Len(df_filtered) |->
                     get_tracking_key(df_filtered[i])]
           fresh(r) == get_tracking_key(r).key \notin store
       IN  IF \A i \in 1..Len(ks) : ks[i].ok
           THEN /\ keys' = [i \in 1..Len(ks) |-> ks[i].key]
                /\ pending' = SelectSeq(df_filtered, fresh)
                /\ pc' = "tracked"
           ELSE /\ keys' = <<>>
                /\ pending' = <<>>
                /\ pc' = "failed"
    /\ jobs' = <<>>
    /\ grp' = 0
    /\ UNCHANGED <<config, now, source, df, df_filtered, returned, emitted,
                   handed, store, run, vessel_email, cc_out>>

\* One turn of the loop of route_notifications, handing each job to
\* delivery as soon as it is built.
RouteStepEmitting ==
    /\ pc \in {"tracked", "routing"}
    /\ grp < Len(GroupKeys(pending))
    /\ LET b == BuildJob(config, GroupKeys(pending)[grp + 1], pending)
       IN  IF b.ok
           THEN /\ jobs' = Append(jobs, b.job)
                /\ emitted' = Append(emitted, b.job)
                /\ grp' = grp + 1
                /\ pc' = "routing"
           ELSE /\ jobs' = <<>>
                /\ emitted' = emitted
                /\ grp' = grp
                /\ pc' = "failed"
    /\ UNCHANGED <<config, now, source, df, df_filtered, keys, pending,
                   returned, handed, store, run, vessel_email, cc_out>>

\* One turn of the loop of route_notifications: the next group's job is
\* appended to the local list, or the error leaves the method and the list
\* is lost.
RouteStep ==
    /\ pc \in {"tracked", "routing"}
    /\ grp < Len(GroupKeys(pending))
    /\ LET b == BuildJob(config, GroupKeys(pending)[grp + 1], pending)
       IN  IF b.ok
           THEN /\ jobs' = Append(jobs, b.job)
                /\ grp' = grp + 1
                /\ pc' = "routing"
           ELSE /\ jobs' = <<>>
                /\ grp' = grp
                /\ pc' = "failed"
    /\ UNCHANGED <<config, now, source, df, df_filtered, keys, pending,
                   returned, emitted, handed, store, run, vessel_email,
                   cc_out>>

\* return jobs
RouteReturn ==
    /\ pc \in {"tracked", "routing"}
    /\ grp = Len(GroupKeys(pending))
    /\ returned' = Append(returned, jobs)
    /\ pc' = "routed"
    /\ UNCHANGED <<config, now, source, df, df_filtered, keys, pending, jobs,
                   grp, emitted, handed, store, run, vessel_email, cc_out>>

\* Emit: the returned jobs are handed to delivery.
Emit ==
    /\ pc = "routed"
    /\ emitted' = jobs
    /\ handed' = handed \cup {RowId(r) : r \in JobRows(jobs)}
    /\ pc' = "emitted"
    /\ UNCHANGED <<config, now, source, df, df_filtered, keys, pending, jobs,
                   grp, returned, store, run, vessel_email, cc_out>>

\* The keys of the rows handed off are recorded in the dedup store.
Record ==
    /\ pc = "emitted"
    /\ store' = store \cup {get_tracking_key(r).key : r \in JobRows(emitted)}
    /\ pc' = "done"
    /\ UNCHANGED <<config, now, source, df, df_filtered, keys, pending, jobs,
                   grp, returned, emitted, handed, run, vessel_email, cc_out>>

\* The process dies mid-run: everything but the store is lost.
Crash ==
    /\ pc \in {"fetched", "filtered", "tracked", "routing", "routed",
               "emitted"}
    /\ pc' = "crashed"
    /\ UNCHANGED <<config, now, source, df, df_filtered, keys, pending, jobs,
                   grp, returned, emitted, handed, store, run, vessel_email,
                   cc_out>>

\* The scheduler starts the next run, with fresh locals.
Restart ==
    /\ pc \in {"done", "failed", "crashed"}
    /\ run < MaxRuns
    /\ pc' = "idle"
    /\ df' = <<>>
    /\ df_filtered' = <<>>
    /\ keys' = <<>>
    /\ pending' = <<>>
    /\ jobs' = <<>>
    /\ grp' = 0
    /\ emitted' = <<>>
    /\ UNCHANGED <<config, now, source, returned, handed, store, run,
                   vessel_email, cc_out>>

\* ----------------------------------------------------------- the inputs

E1 == <<"c", "@", "p">>
E2 == <<"c", "@", "S", "T">>
N1 == <<"a">>
N2 == <<"b">>
A1 == <<"a", "@", "a">>
A2 == <<"b", "@", "b">>

\* The clock's reading: the sixth hour of day 3.
Clock == 3 * TicksPerDay + 6

\* A configuration with nothing switched on.
BaseConfig ==
    [timezone |-> 2, lookback_days |-> 1, enable_links |-> FALSE,
     base_url |-> <<"h">>, url_path |-> <<"/", "x">>,
     email_routing |-> <<>>, internal_recipients |-> <<A2>>]

\* A row of the fetched table, created at the clock's reading.
BaseRow ==
    [vsl_email |-> Str(E1), vessel_id |-> 1, vessel |-> Str(N1), job_id |-> 1,
     importance |-> Null, title |-> Str(<<"a">>), dispensation_type |-> Null,
     department |-> Null, due_date |-> Null, requested_on |-> Null,
     created_at |-> Ts(Clock, FALSE, 0), status |-> Str(<<"a">>)]

\* Nothing has run.
Idle ==
    /\ now = Clock
    /\ keys = <<>>
    /\ jobs = <<>>
    /\ grp = 0
    /\ returned = <<>>
    /\ emitted = <<>>
    /\ handed = {}
    /\ store = {}
    /\ run = 0
    /\ vessel_email = <<>>
    /\ cc_out = {}

\* ------------------------------------------------- the pipeline's runs

\* The most rows the source holds.
MaxSourceRows == 2

SourceRowSet ==
    {[BaseRow EXCEPT !.vsl_email = Str(e), !.vessel_id = v, !.job_id = j,
                     !.created_at = c] :
        e \in {E1, E2}, v \in {1, 2}, j \in {5, 6},
        c \in {Ts(Clock, FALSE, 0), Ts(Clock - 2 * TicksPerDay, FALSE, 0),
               Bad}}

\* Tables whose rows differ in (vessel_id, job_id), as the data source
\* guarantees.
SourceTables ==
    {t \in SeqsOf(SourceRowSet, 0, MaxSourceRows) :
        \A i, j \in 1..Len(t) : i # j => RowId(t[i]) # RowId(t[j])}

RunConfigs ==
    {[BaseConfig EXCEPT !.email_routing = r] :
        r \in {<<[domain |-> <<"s", "t">>, conf |-> CcConf(<<A1>>)]>>,
               <<[domain |-> <<"p">>, conf |-> BadConf]>>}}

Init ==
    /\ Idle
    /\ pc = "idle"
    /\ config \in RunConfigs
    /\ source \in SourceTables
    /\ df = <<>>
    /\ df_filtered = <<>>
    /\ pending = <<>>

Next ==
    \/ Fetch
    \/ Filter
    \/ Track
    \/ RouteStep
    \/ RouteReturn
    \/ Emit
    \/ Record
    \/ Crash
    \/ Restart

Spec == Init /\ [][Next]_vars

EmittedComplete ==
    /\ Len(emitted) = Len(GroupKeys(pending))
    /\ \A k \in Range(GroupKeys(pending)) :
          \E j \in 1..Len(emitted) :
              /\ emitted[j].recipients = <<k[1]>>
              /\ emitted[j].metadata.vessel_name = k[2]

\* C6: a run has no partial success: while a run is still routing, and when
\* it has failed in any stage, no job has been handed to delivery; the jobs
\* a run hands over are those of all its groups.
C6_NoPartialSuccess ==
    /\ pc \in {"failed", "idle", "fetched", "filtered", "tracked", "routing",
               "routed"} => emitted = <<>>
    /\ emitted # <<>> => EmittedComplete

\* A run that failed in its second group, after the first group's job was
\* built.
C6_Witness == pc = "failed" /\ grp = 1 /\ Len(GroupKeys(pending)) = 2

\* C10 as stated: in every job returned, all rows share the vessel_id that
\* the metadata carries.
C10_Original ==
    pc = "routed" =>
        \A j \in 1..Len(jobs) : \A r \in Range(jobs[j].data) :
            r.vessel_id = jobs[j].metadata.vessel_id

\* What the code does instead: the metadata carries the first row's id.
C10_FirstRow ==
    pc = "routed" =>
        \A j \in 1..Len(jobs) :
            jobs[j].metadata.vessel_id = jobs[j].data[1].vessel_id

\* ------------------------------------------------------ the tracking key

\* Two filtered rows with ids in 0..MaxId, about to be tracked.
KeyTables ==
    {<<[BaseRow EXCEPT !.vessel_id = v1, !.job_id = j1],
       [BaseRow EXCEPT !.vessel_id = v2, !.job_id = j2]>> :
        v1 \in 0..MaxId, j1 \in 0..MaxId, v2 \in 0..MaxId, j2 \in 0..MaxId}

InitKey ==
    /\ Idle
    /\ pc = "filtered"
    /\ config = BaseConfig
    /\ source = <<>>
    /\ df = <<>>
    /\ df_filtered \in KeyTables
    /\ pending = <<>>

\* get_tracking_key(row) for each of the rows.
GetTrackingKey ==
    /\ pc = "filtered"
    /\ \A i \in 1..Len(df_filtered) : get_tracking_key(df_filtered[i]).ok
    /\ keys' = [i \in 1..Len(df_filtered) |->
                   get_tracking_key(df_filtered[i]).key]
    /\ pc' = "keyed"
    /\ UNCHANGED <<config, now, source, df, df_filtered, pending, jobs, grp,
                   returned, emitted, handed, store, run, vessel_email,
                   cc_out>>

SpecKey == InitKey /\ [][GetTrackingKey]_vars

\* C3: the keys of two rows are equal exactly when the rows agree on both
\* vessel_id and job_id: equal ids give the same key string (deterministic),
\* and equal keys come only from equal ids (injective).
C3_KeyInjective ==
    pc = "keyed" =>
        (keys[1] = keys[2] <=> RowId(df_filtered[1]) = RowId(df_filtered[2]))

\* Two rows whose ids are made of the same digits in the same order, split
\* differently: (1, 11) and (11, 1).
C3_Witness ==
    /\ pc = "keyed"
    /\ RowId(df_filtered[1]) = <<1, 11>>
    /\ RowId(df_filtered[2]) = <<11, 1>>
    /\ keys[1] = "vessel_id_1__job_id_11"
    /\ keys[2] = "vessel_id_11__job_id_1"

\* ------------------------------------------------------- the CC resolution

CcChars == {"s", "S", "t"}
CcEmails == SeqsOf(CcChars, 1, MaxEmailLen)
CcDomains == {<<"s">>, <<"S", "t">>, <<"t">>, <<"t", "s">>}
CcConfs == {CcConf(<<A1>>), CcConf(<<A2, A2, E1>>), NoCcConf}

\* email_routing: an ordered mapping, so no domain occurs twice.
RoutingTables ==
    {t \in SeqsOf([domain : CcDomains, conf : CcConfs], 0, MaxEntries) :
        \A i, j \in 1..Len(t) : i # j => t[i].domain # t[j].domain}

InitCC ==
    /\ Idle
    /\ pc = "cc_idle"
    /\ config \in {[BaseConfig EXCEPT !.email_routing = t,
                                      !.internal_recipients = n] :
                      t \in RoutingTables, n \in {<<A2>>, <<A1, A2, A1>>}}
    /\ source = <<>>
    /\ df = <<>>
    /\ df_filtered = <<>>
    /\ pending = <<>>

\* A call of _get_cc_recipients(vessel_email).
GetCcRecipients ==
    /\ pc = "cc_idle"
    /\ \E e \in CcEmails :
          /\ vessel_email' = e
          /\ cc_out' = get_cc_recipients(config, e).cc
    /\ pc' = "cc_done"
    /\ UNCHANGED <<config, now, source, df, df_filtered, keys, pending, jobs,
                   grp, returned, emitted, handed, store, run>>

SpecCC == InitCC /\ [][GetCcRecipients]_vars

\* d occurs in e, letter case ignored.
OccursIgnoringCase(d, e) ==
    \E i \in 0..(Len(e) - Len(d)) :
        \A j \in 1..Len(d) : LowerChar(d[j]) = LowerChar(e[i + j])

\* The entries of email_routing whose domain occurs in the email.
Matching ==
    {i \in 1..Len(config.email_routing) :
        OccursIgnoringCase(config.email_routing[i].domain, vessel_email)}

\* C2: the CC set is the internal recipients together with the cc list of the
\* first entry, in configured order, whose domain occurs in the email with
\* case ignored, and the internal recipients alone when no entry matches.
C2_FirstMatchPlusInternal ==
    pc = "cc_done" =>
        /\ Range(config.internal_recipients) \subseteq cc_out
        /\ Matching = {} => cc_out = Range(config.internal_recipients)
        /\ \A i \in Matching :
              (\A j \in Matching : i <= j) =>
                  cc_out = Range(GetCc(config.email_routing[i].conf))
                             \cup Range(config.internal_recipients)

\* Two entries match an email in another letter case, and the later one has
\* a cc address the first lacks.
C2_Witness ==
    /\ pc = "cc_done"
    /\ Cardinality(Matching) = 2
    /\ vessel_email = <<"s", "t", "S">>
    /\ config.email_routing[1].domain = <<"S", "t">>
    /\ config.email_routing[1].conf = CcConf(<<A1>>)
    /\ config.email_routing[2].conf = CcConf(<<A2, A2, E1>>)
    /\ cc_out = {A1, A2}

\* ------------------------------------------------------ the recency filter

\* The most rows of the table filtered.
MaxFilterRows == 2
\* created_at lies within Spread ticks of the cutoff.
Spread == 1

\* The tables of at most n rows, row i drawn from rows and numbered
\* job_id = i.
Numbered(rows, n) ==
    {[i \in 1..Len(t) |-> [t[i] EXCEPT !.job_id = i]] :
        t \in SeqsOf(rows, 0, n)}

\* A created_at column is of one kind: without a timezone, or with one
\* (UTC, or three hours east).
ColumnKinds == {[aware |-> FALSE, off |-> 0], [aware |-> TRUE, off |-> 0],
                [aware |-> TRUE, off |-> 3]}

\* The readings, on a column's clock, of the instants around the cutoff of
\* a lookback of `days`, and a null.
CreatedCells(kind, days) ==
    {Null} \cup
    {Ts(Clock - days * TicksPerDay + d + kind.off, kind.aware, kind.off) :
        d \in (0 - Spread)..Spread}

InitFilter ==
    /\ Idle
    /\ pc = "fetched"
    /\ \E tz \in {0, 2, 3}, days \in {1, 2}, kind \in ColumnKinds :
          /\ config = [BaseConfig EXCEPT !.timezone = tz,
                                         !.lookback_days = days]
          /\ source \in Numbered({[BaseRow EXCEPT !.created_at = c] :
                                     c \in CreatedCells(kind, days)},
                                 MaxFilterRows)
    /\ df = source
    /\ df_filtered = <<>>
    /\ pending = <<>>

SpecFilter == InitFilter /\ [][Filter]_vars

\* The instant a created_at cell of the source denotes: a reading without a
\* timezone is a UTC reading.
SourceInstant(c) == IF c.aware THEN c.wall - c.off ELSE c.wall

\* now(tz) - lookback_days, as an instant.
CutoffInstant == now - config.lookback_days * TicksPerDay

KeptIds == [i \in 1..Len(df_filtered) |-> df_filtered[i].job_id]

\* The ids of the rows of t that satisfy keep, in order.
RECURSIVE IdsWhere(_, _)
IdsWhere(t, keep) ==
    IF t = <<>> THEN <<>>
    ELSE (IF Head(t).job_id \in keep THEN <<Head(t).job_id>> ELSE <<>>)
           \o IdsWhere(Tail(t), keep)

\* C4: filter_data keeps exactly the rows whose created_at is at or after
\* now(tz) - lookback_days, in their order: the row at the cutoff is kept,
\* the row one tick before it is dropped.
C4_KeepsFromCutoff ==
    pc = "filtered" =>
        KeptIds = IdsWhere(source,
                     {i \in 1..Len(source) :
                         /\ IsTs(source[i].created_at)
                         /\ SourceInstant(source[i].created_at)
                              >= CutoffInstant})

\* A column without timezone, a target timezone east of UTC: the row one
\* tick before the cutoff is dropped and the row at the cutoff is kept.
C4_Witness ==
    /\ pc = "filtered"
    /\ config.timezone = 2
    /\ Len(source) = 2
    /\ source[1].created_at = Ts(CutoffInstant - 1, FALSE, 0)
    /\ source[2].created_at = Ts(CutoffInstant, FALSE, 0)
    /\ KeptIds = <<2>>

\* ---------------------------------------------------- the date columns

\* The most rows of the table whose dates are formatted.
MaxDateRows == 2

DateCells == {Null, Bad, Ts(Clock + TicksPerDay, FALSE, 0)}

DateRows ==
    {[BaseRow EXCEPT !.created_at = c, !.due_date = d, !.requested_on = q,
                     !.importance = m] :
        c \in {Null, Bad, Ts(Clock, FALSE, 0),
               Ts(Clock - 2 * TicksPerDay, FALSE, 0)},
        d \in DateCells, q \in DateCells, m \in {Null, Str(<<"a">>)}}

InitDates ==
    /\ Idle
    /\ pc = "fetched"
    /\ config = BaseConfig
    /\ source \in Numbered(DateRows, MaxDateRows)
    /\ df = source
    /\ df_filtered = <<>>
    /\ pending = <<>>

SpecDates == InitDates /\ [][Filter]_vars

\* The source row an output row came from.
SourceOf(r) == source[r.job_id]

\* The source rows created at or after the cutoff.
RecentIds ==
    {i \in 1..Len(source) :
        /\ IsTs(source[i].created_at)
        /\ SourceInstant(source[i].created_at) >= CutoffInstant}

MaxRouteRows == 3

RouteRows ==
    {[BaseRow EXCEPT !.vsl_email = e, !.vessel = v, !.title = Str(t)] :
        e \in {Str(E1), Str(E2), Null}, v \in {Str(N1), Str(N2), Null},
        t \in {<<"a">>, <<"b">>}}

InitRoute ==
    /\ Idle
    /\ pc = "tracked"
    /\ config = [BaseConfig EXCEPT !.email_routing =
                    <<[domain |-> <<"s", "t">>, conf |-> CcConf(<<A1>>)]>>]
    /\ source = <<>>
    /\ df = <<>>
    /\ df_filtered = <<>>
    /\ pending \in Numbered(RouteRows, MaxRouteRows)

NextRoute ==
    \/ RouteStep
    \/ RouteReturn

SpecRoute == InitRoute /\ [][NextRoute]_vars

\* The destination of a job.
JobPair(job) == <<job.recipients[1], job.metadata.vessel_name>>

\* The rows of the routed table that name a destination.
Routable ==
    {i \in 1..Len(pending) :
        ~IsNull(pending[i].vsl_email) /\ ~IsNull(pending[i].vessel)}

RowPair(i) == <<pending[i].vsl_email.v, pending[i].vessel.v>>

\* The jobs whose data holds row i of the routed table.
JobsHolding(i) ==
    {j \in 1..Len(jobs) :
        \E k \in 1..Len(jobs[j].data) : jobs[j].data[k].job_id = i}

\* C1 as stated: one job per distinct (vsl_email, vessel) pair, and every
\* input row is in the data of exactly one job.
C1_Original ==
    pc = "routed" =>
        /\ Len(jobs) = Cardinality({RowPair(i) : i \in Routable})
        /\ \A i \in 1..Len(pending) : Cardinality(JobsHolding(i)) = 1

\* C1, amended: route_notifications returns exactly one job per distinct
\* (vsl_email, vessel) pair of the rows in which neither is null; every such
\* row is in the data of exactly one job, the job of its own pair, with the
\* rows of a job in input order; a row with a null vsl_email or vessel is in
\* no job.
C1_PartitionOfRoutableRows ==
    pc = "routed" =>
        /\ Len(jobs) = Cardinality({RowPair(i) : i \in Routable})
        /\ \A i, j \in 1..Len(jobs) :
              JobPair(jobs[i]) = JobPair(jobs[j]) => i = j
        /\ \A j \in 1..Len(jobs) :
              /\ [k \in 1..Len(jobs[j].data) |-> jobs[j].data[k].job_id]
                   = IdsWhere(pending, {i \in Routable :
                                           RowPair(i) = JobPair(jobs[j])})
              /\ \A k \in 1..Len(jobs[j].data) :
                    jobs[j].data[k] = pending[jobs[j].data[k].job_id]
        /\ \A i \in 1..Len(pending) :
              Cardinality(JobsHolding(i)) = IF i \in Routable THEN 1 ELSE 0

\* Rows 1 and 3 share a destination and differ in title, row 2 goes
\* elsewhere: two jobs, one of them holding rows 1 and 3 in that order.
C1_Witness ==
    /\ pc = "routed"
    /\ Len(pending) = 3
    /\ Routable = {1, 2, 3}
    /\ RowPair(1) = RowPair(3)
    /\ RowPair(1) # RowPair(2)
    /\ pending[1].title # pending[3].title
    /\ Len(jobs) = 2
    /\ \E j \in 1..2 : jobs[j].data = <<pending[1], pending[3]>>

\* ------------------------------------------------------------- the links

\* The most rows of the table whose links are built.
MaxLinkRows == 2

LinkIds == {7, 123}

LinkRows ==
    {[BaseRow EXCEPT !.vsl_email = Str(e), !.job_id = j] :
        e \in {E1, E2}, j \in LinkIds}

LinkConfigs ==
    {[BaseConfig EXCEPT !.enable_links = on, !.base_url = b, !.url_path = u] :
        on \in BOOLEAN,
        b \in {<<"h">>, <<"h", "/">>, <<"h", "/", "/">>},
        u \in {<<"/", "x">>, <<"/", "x", "/">>, <<>>}}

InitLinks ==
    /\ Idle
    /\ pc = "tracked"
    /\ config \in LinkConfigs
    /\ source = <<>>
    /\ df = <<>>
    /\ df_filtered = <<>>
    /\ pending \in SeqsOf(LinkRows, 0, MaxLinkRows)

SpecLinks == InitLinks /\ [][NextRoute]_vars

\* s without its trailing slashes: the longest prefix that does not end in
\* one.
WithoutTrailingSlashes(s) ==
    LET n == CHOOSE n \in 0..Len(s) :
                 /\ n = 0 \/ s[n] # "/"
                 /\ \A m \in (n + 1)..Len(s) : s[m] = "/"
    IN  SubSeq(s, 1, n)

\* C8 as stated: with links disabled no row of any job has a url; with
\* links enabled every row's url is base_url + url_path + "/" + job_id.
C8_Original ==
    pc = "routed" =>
        \A j \in 1..Len(jobs) : \A r \in Range(jobs[j].data) :
            IF config.enable_links
            THEN /\ "url" \in DOMAIN r
                 /\ r.url = Str(config.base_url \o config.url_path \o <<"/">>
                                  \o IntText(r.job_id))
            ELSE "url" \notin DOMAIN r

\* C8, amended: with links disabled no row of any job has a url; with links
\* enabled every row's url is base_url and url_path, each without its
\* trailing slashes, then "/" and the job_id.
C8_UrlFromStrippedParts ==
    pc = "routed" =>
        \A j \in 1..Len(jobs) : \A r \in Range(jobs[j].data) :
            IF config.enable_links
            THEN /\ "url" \in DOMAIN r
                 /\ r.url = Str(WithoutTrailingSlashes(config.base_url)
                                  \o WithoutTrailingSlashes(config.url_path)
                                  \o <<"/">> \o IntText(r.job_id))
            ELSE "url" \notin DOMAIN r

\* Links enabled, a base_url that ends in a slash, job 123: the url has one
\* slash between the parts.
C8_Witness ==
    /\ pc = "routed"
    /\ config.enable_links
    /\ config.base_url = <<"h", "/">>
    /\ config.url_path = <<"/", "x">>
    /\ \E j \in 1..Len(jobs) : \E r \in Range(jobs[j].data) :
          /\ r.job_id = 123
          /\ r.url = Str(<<"h", "/", "x", "/", "1", "2", "3">>)

\* ------------------------------------------------- the pipeline run twice

\* The most rows of the table the pipeline is run on twice.
MaxIdemRows == 2

\* Recent and old rows for either vessel, the created_at column of one kind.
IdemTables(kind) ==
    Numbered({[BaseRow EXCEPT !.vsl_email = Str(e), !.created_at = c] :
                 e \in {E1, E2},
                 c \in {Ts(Clock + kind.off, kind.aware, kind.off),
                        Ts(Clock - 2 * TicksPerDay + kind.off, kind.aware,
                           kind.off)}},
             MaxIdemRows)

InitIdem ==
    /\ Idle
    /\ pc = "fetched"
    /\ \E tz \in {0, 2}, kind \in ColumnKinds :
          /\ config = [BaseConfig EXCEPT !.timezone = tz]
          /\ source \in IdemTables(kind)
    /\ df = source
    /\ df_filtered = <<>>
    /\ pending = <<>>

\* The caller runs filter_data and route_notifications again on the table it
\* still holds.
Rerun ==
    /\ pc = "routed"
    /\ Len(returned) < MaxRuns
    /\ pc' = "fetched"
    /\ df_filtered' = <<>>
    /\ keys' = <<>>
    /\ pending' = <<>>
    /\ jobs' = <<>>
    /\ grp' = 0
    /\ UNCHANGED <<config, now, source, df, returned, emitted, handed, store,
                   run, vessel_email, cc_out>>

NextIdem ==
    \/ Filter
    \/ Track
    \/ RouteStep
    \/ RouteReturn
    \/ Rerun

SpecIdem == InitIdem /\ [][NextIdem]_vars

\* The two runs return the same jobs.
C7_SameJobs == Len(returned) = 2 => returned[1] = returned[2]

\* C7 as stated: two runs on the same table, store and clock return the
\* same jobs, and the caller's table is as it was before the first run (the
\* url column is attached to the jobs' data only).
C7_Original ==
    /\ Len(returned) = 2 => returned[1] = returned[2]
    /\ df = source

\* What the code leaves of the caller's table: the same rows and, in every
\* column but created_at, the same cells; created_at holds the same
\* instants, read on the configured timezone's clock.
C7_OnlyCreatedAtRewritten ==
    /\ Len(df) = Len(source)
    /\ \A i \in 1..Len(df) :
          /\ [df[i] EXCEPT !.created_at = Null]
               = [source[i] EXCEPT !.created_at = Null]
          /\ df[i].created_at = source[i].created_at
             \/ /\ df[i].created_at.off = config.timezone
                /\ Instant(df[i].created_at)
                     = SourceInstant(source[i].created_at)

=============================================================================
